---- MODULE Spec2Model ----
(***************************************************************************)
(* Model of gen.py: the script-to-images pipeline (segment_script,         *)
(* generate_prompt_from_chunk, start_image_generation, poll_for_image_url, *)
(* download_and_save_image, main_pipeline) and the part of the Tk App that *)
(* starts a run in a worker thread and drains the log queue.               *)
(*                                                                         *)
(* Texts are sequences of one-character strings.  An optional value        *)
(* (Python None or a value) is the empty tuple or a one-element tuple.     *)
(* A log line is [kind, n]: kind names the log_message call site, n is the *)
(* number the line prints where a property needs it.  The two per-attempt  *)
(* lines of the poll loop (gen.py:150 and gen.py:152) are one kind,        *)
(* "PollWait".                                                             *)
(***************************************************************************)
EXTENDS Integers, Sequences, FiniteSets, TLC

\* ---------------------------------------------------------------- constants
MAX_ATTEMPTS == 20
POLL_INTERVAL == 5

\* ------------------------------------------------------------------- bounds
MaxScriptLen == 3
MaxImages == 2
MaxAppScriptLen == 1
MaxGenerated == 2
MaxSegTextLen == 7
MaxSegments == 3

VARIABLES
    is_running,       \* App.is_running
    log_text,         \* lines shown in App.log_text
    log_queue,        \* App.log_queue, a FIFO of log lines
    threads,          \* number of worker threads started and not yet ended
    pc,               \* position of the worker thread
    config,           \* the config dict handed to the worker
    script_segments,  \* main_pipeline: script_segments
    i,                \* main_pipeline: loop index (0-based)
    image_counter,    \* main_pipeline: image_counter
    image_prompt,     \* main_pipeline: image_prompt (optional text)
    task_id,          \* main_pipeline: task_id (optional text)
    image_url,        \* main_pipeline: image_url (optional text)
    attempt,          \* poll_for_image_url: attempts completed
    response,         \* the HTTP response the worker is looking at
    dir_made,         \* os.makedirs(output_folder) was executed in this run
    written,          \* files written by this run: number -> segment whose image it holds
    stat,             \* per segment: calls made and what each stage returned
    nreq,             \* HTTP requests issued by this run
    poll_err,         \* some attempt of the poll run in progress failed with a RequestException
    dialog            \* the messagebox the last start request showed ("none": it showed none)

vars == <<is_running, log_text, log_queue, threads, pc, config, script_segments, i,
          image_counter, image_prompt, task_id, image_url, attempt, response,
          dir_made, written, stat, nreq, poll_err, dialog>>

\* -------------------------------------------------------------------- texts
Whitespace == {" ", "\n"}

None == <<>>

Some(x) == <<x>>

\* Truthy as a test against None only
TruthyNotNone(opt) == opt # None

\* Python truthiness of an optional text: neither None nor "".
Truthy(opt) == opt # None /\ opt[1] # <<>>

RECURSIVE LStrip(_)
LStrip(t) ==
    IF t # <<>> /\ Head(t) \in Whitespace THEN LStrip(Tail(t)) ELSE t

RECURSIVE RStrip(_)
RStrip(t) ==
    IF t # <<>> /\ t[Len(t)] \in Whitespace THEN RStrip(SubSeq(t, 1, Len(t) - 1)) ELSE t

\* str.strip()
Strip(t) == RStrip(LStrip(t))

RECURSIVE SplitFrom(_, _, _)
SplitFrom(t, cur, acc) ==
    IF t = <<>>
    THEN (IF cur = <<>> THEN acc ELSE Append(acc, cur))
    ELSE IF Head(t) \in Whitespace
         THEN SplitFrom(Tail(t), <<>>, IF cur = <<>> THEN acc ELSE Append(acc, cur))
         ELSE SplitFrom(Tail(t), Append(cur, Head(t)), acc)

\* Split as str.split(" ") has it on the empty text: one empty word
SplitOnBlank(t) == IF t = <<>> THEN << <<>> >> ELSE SplitFrom(t, <<>>, <<>>)

\* str.split(): the maximal runs of non-whitespace characters
Split(t) == SplitFrom(t, <<>>, <<>>)

RECURSIVE Join(_)
\* " ".join(words)
Join(words) ==
    IF words = <<>> THEN <<>>
    ELSE IF Len(words) = 1 THEN words[1]
    ELSE words[1] \o <<" ">> \o Join(Tail(words))

\* str.startswith(prefix)
StartsWith(t, prefix) ==
    Len(t) >= Len(prefix) /\ SubSeq(t, 1, Len(prefix)) = prefix

Min(a, b) == IF a < b THEN a ELSE b

\* CeilDiv rounding down
FloorDiv(a, b) == a \div b

\* math.ceil(a / b) for a >= 0, b >= 1
CeilDiv(a, b) == (a + b - 1) \div b

\* words[a:b] (0-based, end exclusive, b already clamped to len(words))
Slice(words, a, b) == IF a >= b THEN <<>> ELSE SubSeq(words, a + 1, b)

\* --------------------------------------------------------------- log lines
Msg(k) == [kind |-> k, n |-> 0]

MsgN(k, num) == [kind |-> k, n |-> num]

PIPELINE_COMPLETE == Msg("---PIPELINE_COMPLETE---")

\* ---------------------------------------------------------- segment_script
RECURSIVE SegmentLoop(_, _, _, _)
SegmentLoop(words, num_segments, words_per_segment, k) ==
    IF k >= num_segments THEN <<>>
    ELSE LET start_index == k * words_per_segment
             end_index == Min((k + 1) * words_per_segment, Len(words))
             segment_words == Slice(words, start_index, end_index)
             rest == SegmentLoop(words, num_segments, words_per_segment, k + 1)
         IN  IF segment_words # <<>> THEN <<Join(segment_words)>> \o rest ELSE rest

segment_script(script_text, num_segments) ==
    LET words == Split(Strip(script_text))
    IN  IF words = <<>> THEN <<>>
        ELSE SegmentLoop(words, num_segments, CeilDiv(Len(words), num_segments), 0)

\* the lines segment_script logs: one, and only when there are words
segment_script_log(script_text, num_segments) ==
    IF Split(Strip(script_text)) = <<>> THEN <<>>
    ELSE <<MsgN("Split", Len(segment_script(script_text, num_segments)))>>

\* ------------------------------------------------------------ HTTP responses
\* kind: "transport" (connection error or timeout), "http" (a non-2xx status,
\* raised by raise_for_status) or "ok" (a 2xx status with a JSON body).
NoResponse == [kind |-> "none"]

IsRequestException(r) == r.kind \in {"transport", "http"}

\* Body of the chat-completion response, along data['choices'][0]['message']['content'].
SynthBody(ch, f, m, c, t) ==
    [kind |-> "ok", choices |-> ch, first |-> f, message |-> m, content |-> c, text |-> t]

SynthFailure(k) ==
    [kind |-> k, choices |-> "absent", first |-> "null", message |-> "absent",
     content |-> "absent", text |-> <<>>]

PromptTexts == {<<"p">>, <<" ", "p", "\n">>, <<" ">>, <<>>}

SynthResponses ==
    {SynthFailure("transport"), SynthFailure("http"),
     SynthBody("absent", "null", "absent", "absent", <<>>),
     SynthBody("null", "null", "absent", "absent", <<>>),
     SynthBody("empty", "null", "absent", "absent", <<>>),
     SynthBody("list", "null", "absent", "absent", <<>>),
     SynthBody("list", "str", "absent", "absent", <<>>),
     SynthBody("list", "dict", "absent", "absent", <<>>),
     SynthBody("list", "dict", "null", "absent", <<>>),
     SynthBody("list", "dict", "dict", "absent", <<>>),
     SynthBody("list", "dict", "dict", "null", <<>>)}
    \cup {SynthBody("list", "dict", "dict", "str", t) : t \in PromptTexts}

\* What lines 75-79 evaluate to: the exception raised ("none" when none is) and the value.
SynthOutcome(r) ==
    IF IsRequestException(r) THEN [exc |-> "RequestException", value |-> <<>>]
    ELSE IF r.choices = "absent" THEN [exc |-> "KeyError", value |-> <<>>]
    ELSE IF r.choices = "null" THEN [exc |-> "TypeError", value |-> <<>>]
    ELSE IF r.choices = "empty" THEN [exc |-> "IndexError", value |-> <<>>]
    ELSE IF r.first \in {"null", "str"} THEN [exc |-> "TypeError", value |-> <<>>]
    ELSE IF r.message = "absent" THEN [exc |-> "KeyError", value |-> <<>>]
    ELSE IF r.message = "null" THEN [exc |-> "TypeError", value |-> <<>>]
    ELSE IF r.content = "absent" THEN [exc |-> "KeyError", value |-> <<>>]
    ELSE IF r.content = "null" THEN [exc |-> "AttributeError", value |-> <<>>]
    ELSE [exc |-> "none", value |-> Strip(r.text)]

\* Body of the job-submission response: data.get('data', {}).get('task_id').
SubmitBody(d, tk, tt) == [kind |-> "ok", data |-> d, tkind |-> tk, ttext |-> tt]

SubmitFailure(k) == [kind |-> k, data |-> "absent", tkind |-> "absent", ttext |-> <<>>]

TaskText == <<"t", "1">>

SubmitResponses ==
    {SubmitFailure("transport"), SubmitFailure("http"),
     SubmitBody("absent", "absent", <<>>),
     SubmitBody("null", "absent", <<>>),
     SubmitBody("dict", "absent", <<>>),
     SubmitBody("dict", "null", <<>>),
     SubmitBody("dict", "str", <<>>),
     SubmitBody("dict", "str", TaskText)}

\* What lines 104-109 evaluate to: the exception raised and task_id (optional text).
SubmitOutcome(r) ==
    IF IsRequestException(r) THEN [exc |-> "RequestException", value |-> None]
    ELSE IF r.data = "null" THEN [exc |-> "AttributeError", value |-> None]
    ELSE IF r.data = "absent" THEN [exc |-> "none", value |-> None]
    ELSE IF r.tkind = "str" THEN [exc |-> "none", value |-> Some(r.ttext)]
    ELSE [exc |-> "none", value |-> None]

\* Body of the job-status response: data.get('data', {}) with 'status' and 'generated'.
\* An item of the generated list is a string (isStr, text) or something else.
StrItem(t) == [isStr |-> TRUE, text |-> t]

OtherItem == [isStr |-> FALSE, text |-> <<>>]

HttpPrefix == <<"h", "t", "t", "p">>

UrlA == HttpPrefix \o <<"/", "a">>

UrlB == HttpPrefix \o <<"s", "/", "b">>

Items == {StrItem(UrlA), StrItem(UrlB), StrItem(<<"h", "t", "t">>), StrItem(<<>>), OtherItem}

ItemLists == UNION {[1..n -> Items] : n \in 0..MaxGenerated}

PollBody(d, st, g, its) ==
    [kind |-> "ok", data |-> d, status |-> st, gen |-> g, items |-> its]

PollFailure(k) ==
    [kind |-> k, data |-> "absent", status |-> "absent", gen |-> "absent", items |-> <<>>]

Statuses == {"absent", "IN_PROGRESS", "COMPLETED", "FAILED"}

\* every shape of status response the model distinguishes
PollResponses ==
    {PollFailure("transport"), PollFailure("http"),
     PollBody("absent", "absent", "absent", <<>>),
     PollBody("null", "absent", "absent", <<>>)}
    \cup {PollBody("dict", st, g, <<>>) : st \in Statuses, g \in {"absent", "null", "str"}}
    \cup {PollBody("dict", st, "list", its) : st \in Statuses, its \in ItemLists}

\* the shapes that drive the pipeline: a failure of each kind, a malformed body,
\* a job still in progress, a finished job
PipePollResponses ==
    {PollFailure("transport"), PollFailure("http"),
     PollBody("null", "absent", "absent", <<>>),
     PollBody("dict", "IN_PROGRESS", "absent", <<>>),
     PollBody("dict", "COMPLETED", "list", <<StrItem(UrlA)>>)}

RECURSIVE FirstStringItem(_)
\* FirstHttpItem without the startswith('http') test
FirstStringItem(items) ==
    IF items = <<>> THEN None
    ELSE IF Head(items).isStr THEN Some(Head(items).text)
         ELSE FirstStringItem(Tail(items))

RECURSIVE FirstHttpItem(_)
\* next((item for item in generated_images
\*       if isinstance(item, str) and item.startswith('http')), None)
FirstHttpItem(items) ==
    IF items = <<>> THEN None
    ELSE IF Head(items).isStr /\ StartsWith(Head(items).text, HttpPrefix)
         THEN Some(Head(items).text)
         ELSE FirstHttpItem(Tail(items))

\* What lines 136-146 evaluate to: the exception raised and image_url (optional text).
PollOutcome(r) ==
    IF IsRequestException(r) THEN [exc |-> "RequestException", value |-> None]
    ELSE IF r.data = "null" THEN [exc |-> "AttributeError", value |-> None]
    ELSE IF r.data = "dict" /\ r.gen = "list" /\ Len(r.items) > 0
         THEN [exc |-> "none", value |-> FirstHttpItem(r.items)]
         ELSE [exc |-> "none", value |-> None]

\* The download: the GET, then open(file_path, 'wb') and the write.
DownloadResponses ==
    {[kind |-> "transport", open |-> "ok"], [kind |-> "http", open |-> "ok"],
     [kind |-> "ok", open |-> "ok"], [kind |-> "ok", open |-> "OSError"]}

\* ------------------------------------------------------------- worker state
NoConfig ==
    [freepik_key |-> <<>>, deepseek_key |-> <<>>, full_script |-> <<>>, num_images |-> 0]

NoFiles == [k \in {} |-> 0]

Fresh ==
    [nsynth |-> 0, synth |-> "-", nsubmit |-> 0, submit |-> "-", npoll |-> 0,
     poll |-> "-", reqs |-> 0, sleeps |-> 0, ndl |-> 0, dl |-> "-"]

\* the segment the loop body is working on (1-based)
Cur == i + 1

gui == <<is_running, log_text, threads, dialog>>

locals == <<image_prompt, task_id, image_url>>

\* ------------------------------------------------------------ main_pipeline
\* EmptyAbort for a pipeline that runs its loop on an empty segmentation
EmptyAbortNever(segments) == FALSE

\* "if not script_segments" (line 194)
EmptyAbort(segments) == segments = <<>>

\* SkipSegment for an orchestrator that goes on with a null result
SkipSegmentNever(result) == FALSE

\* "if not image_prompt / task_id / image_url: ... continue" (lines 206, 214, 221)
SkipSegment(result) == ~Truthy(result)

\* NextImageCounter for a counter that advances on saved images only
NextImageCounterOnSave(saved) == IF saved THEN image_counter + 1 ELSE image_counter

\* "image_counter += 1" (line 231), executed whenever download_and_save_image returns
NextImageCounter(saved) == image_counter + 1

\* FileNumber taken from the loop index instead of the counter
FileNumberFromIndex == i

\* file_name = f"{image_counter}.png" (line 227)
FileNumber == image_counter

\* NextSegment for a loop that takes a failed segment up again
SameSegment(k) == k

\* "for i, segment in enumerate(script_segments)" (line 200): the index the
\* loop goes on with after "continue" or the end of the body
NextSegment(k) == k + 1

\* StageAfter for a loop body that polls without submitting
StageAfterSkipsSubmit(stage) == "poll_enter"

\* the statement the loop body goes on with after a stage returned a truthy
\* result: start_image_generation (line 212) after the prompt,
\* poll_for_image_url (line 219) after the submission
StageAfter(stage) == IF stage = "synth" THEN "submit" ELSE "poll_enter"

\* Lines 177-198: the header, os.makedirs, segment_script and the empty check.
MainBegin ==
    /\ pc = "begin"
    /\ LET segments == segment_script(config.full_script, config.num_images)
           head == <<Msg("Start"), Msg("SaveInfo")>>
                   \o segment_script_log(config.full_script, config.num_images)
       IN  /\ dir_made' = TRUE
           /\ script_segments' = segments
           /\ stat' = [s \in 1..Len(segments) |-> Fresh]
           /\ IF EmptyAbort(segments)
              THEN /\ log_queue' = log_queue \o head \o <<Msg("ErrEmpty")>>
                   /\ pc' = "finally"
                   /\ UNCHANGED <<i, image_counter>>
              ELSE /\ log_queue' = log_queue \o head
                   /\ image_counter' = 1
                   /\ i' = 0
                   /\ pc' = "loop"
    /\ UNCHANGED <<gui, config, locals, attempt, response, written, nreq, poll_err>>

\* Line 200-201 (the next segment) or, after the last one, lines 233-234.
LoopHead ==
    /\ pc = "loop"
    /\ IF i < Len(script_segments)
       THEN /\ log_queue' = Append(log_queue, MsgN("Processing", i + 1))
            /\ pc' = "synth"
       ELSE /\ log_queue' = log_queue
                            \o <<Msg("Complete"), MsgN("Summary", image_counter - 1)>>
            /\ pc' = "finally"
    /\ UNCHANGED <<gui, config, script_segments, i, image_counter, locals, attempt,
                   response, dir_made, written, stat, nreq, poll_err>>

\* generate_prompt_from_chunk, lines 49-75: the log line and the POST.
SynthRequest(r) ==
    /\ pc = "synth"
    /\ log_queue' = Append(log_queue, Msg("GenPrompt"))
    /\ response' = r
    /\ nreq' = nreq + 1
    /\ stat' = [stat EXCEPT ![Cur].nsynth = @ + 1]
    /\ pc' = "synth_ret"
    /\ UNCHANGED <<gui, config, script_segments, i, image_counter, locals, attempt,
                   dir_made, written, poll_err>>

\* generate_prompt_from_chunk, lines 76-85, and main_pipeline, lines 204-209.
SynthReturn ==
    /\ pc = "synth_ret"
    /\ response' = NoResponse
    /\ LET o == SynthOutcome(response)
           result == IF o.exc = "none" THEN Some(o.value) ELSE None
           logged == IF o.exc = "RequestException" THEN <<Msg("ErrDeepSeek")>>
                     ELSE IF o.exc \in {"KeyError", "IndexError"}
                          THEN <<Msg("ErrDeepSeekParse")>>
                          ELSE <<>>
       IN  IF o.exc \in {"TypeError", "AttributeError"}
           THEN /\ pc' = "except"
                /\ stat' = [stat EXCEPT ![Cur].synth = "raise"]
                /\ UNCHANGED <<log_queue, i, image_prompt>>
           ELSE /\ image_prompt' = result
                /\ stat' = [stat EXCEPT ![Cur].synth =
                               IF result = None THEN "null"
                               ELSE IF result = Some(<<>>) THEN "empty" ELSE "ok"]
                /\ IF SkipSegment(result)
                   THEN /\ log_queue' = log_queue \o logged \o <<Msg("SkipPrompt")>>
                        /\ i' = NextSegment(i)
                        /\ pc' = "loop"
                   ELSE /\ log_queue' = log_queue \o logged \o <<Msg("Prompt")>>
                        /\ i' = i
                        /\ pc' = StageAfter("synth")
    /\ UNCHANGED <<gui, config, script_segments, image_counter, task_id, image_url,
                   attempt, dir_made, written, nreq, poll_err>>

\* start_image_generation, lines 89-104: the log line and the POST.
SubmitRequest(r) ==
    /\ pc = "submit"
    /\ log_queue' = Append(log_queue, Msg("StartGen"))
    /\ response' = r
    /\ nreq' = nreq + 1
    /\ stat' = [stat EXCEPT ![Cur].nsubmit = @ + 1]
    /\ pc' = "submit_ret"
    /\ UNCHANGED <<gui, config, script_segments, i, image_counter, locals, attempt,
                   dir_made, written, poll_err>>

\* start_image_generation, lines 105-120, and main_pipeline, lines 212-216.
SubmitReturn ==
    /\ pc = "submit_ret"
    /\ response' = NoResponse
    /\ LET o == SubmitOutcome(response)
           result == IF o.exc = "none" /\ Truthy(o.value) THEN o.value ELSE None
           logged == IF o.exc = "RequestException" THEN <<Msg("ErrFreepik")>>
                     ELSE IF Truthy(o.value) THEN <<Msg("TaskStarted")>>
                          ELSE <<Msg("ErrNoTask"), Msg("FullResponse")>>
       IN  IF o.exc = "AttributeError"
           THEN /\ pc' = "except"
                /\ stat' = [stat EXCEPT ![Cur].submit = "raise"]
                /\ UNCHANGED <<log_queue, i, task_id>>
           ELSE /\ task_id' = result
                /\ stat' = [stat EXCEPT ![Cur].submit =
                               IF result = None THEN "null" ELSE "ok"]
                /\ IF SkipSegment(result)
                   THEN /\ log_queue' = log_queue \o logged \o <<Msg("SkipStart")>>
                        /\ i' = NextSegment(i)
                        /\ pc' = "loop"
                   ELSE /\ log_queue' = log_queue \o logged
                        /\ i' = i
                        /\ pc' = StageAfter("submit")
    /\ UNCHANGED <<gui, config, script_segments, image_counter, image_prompt, image_url,
                   attempt, dir_made, written, nreq, poll_err>>

\* ------------------------------------------------------- poll_for_image_url
\* AttemptsRemain with the bound off by one
AttemptsRemainInclusive(a) == a <= MAX_ATTEMPTS

\* "for attempt in range(MAX_ATTEMPTS)" (line 133): another iteration follows
AttemptsRemain(a) == a < MAX_ATTEMPTS

\* AttemptAfterError for a loop that a request error ends
AttemptAfterErrorEndsLoop(a) == MAX_ATTEMPTS

\* the attempt counter after an iteration that ended in the except clause (lines 151-152)
AttemptAfterError(a) == a + 1

\* Lines 124-131.
PollEnter ==
    /\ pc = "poll_enter"
    /\ log_queue' = Append(log_queue, Msg("Polling"))
    /\ attempt' = 0
    /\ poll_err' = FALSE
    /\ stat' = [stat EXCEPT ![Cur].npoll = @ + 1]
    /\ pc' = "poll_loop"
    /\ UNCHANGED <<gui, config, script_segments, i, image_counter, locals, response,
                   dir_made, written, nreq>>

\* Line 135: time.sleep(POLL_INTERVAL), first statement of every iteration.
PollSleep ==
    /\ pc = "poll_loop"
    /\ AttemptsRemain(attempt)
    /\ stat' = [stat EXCEPT ![Cur].sleeps = @ + 1]
    /\ pc' = "poll_get"
    /\ UNCHANGED <<gui, log_queue, config, script_segments, i, image_counter, locals,
                   attempt, response, dir_made, written, nreq, poll_err>>

\* Line 136: the status request.
PollGet(r) ==
    /\ pc = "poll_get"
    /\ response' = r
    /\ nreq' = nreq + 1
    /\ stat' = [stat EXCEPT ![Cur].reqs = @ + 1]
    /\ pc' = "poll_parse"
    /\ UNCHANGED <<gui, log_queue, config, script_segments, i, image_counter, locals,
                   attempt, dir_made, written, poll_err>>

\* Lines 137-152; on success the URL is returned, which is truthy, so
\* main_pipeline goes on to the download (lines 219-224).
PollParse ==
    /\ pc = "poll_parse"
    /\ response' = NoResponse
    /\ LET o == PollOutcome(response)
       IN  IF o.exc = "AttributeError"
           THEN /\ pc' = "except"
                /\ stat' = [stat EXCEPT ![Cur].poll = "raise"]
                /\ poll_err' = FALSE
                /\ UNCHANGED <<log_queue, i, image_url, attempt>>
           ELSE IF o.exc = "RequestException"
           THEN /\ log_queue' = Append(log_queue, Msg("PollWait"))
                /\ attempt' = AttemptAfterError(attempt)
                /\ poll_err' = TRUE
                /\ pc' = "poll_loop"
                /\ UNCHANGED <<i, image_url, stat>>
           ELSE IF Truthy(o.value)
           THEN /\ image_url' = o.value
                /\ poll_err' = FALSE
                /\ stat' = [stat EXCEPT ![Cur].poll = "url"]
                /\ log_queue' = log_queue \o <<Msg("PollOk"), Msg("UrlFound")>>
                /\ pc' = "download"
                /\ UNCHANGED <<i, attempt>>
           ELSE /\ log_queue' = Append(log_queue, Msg("PollWait"))
                /\ attempt' = attempt + 1
                /\ pc' = "poll_loop"
                /\ UNCHANGED <<i, image_url, stat, poll_err>>
    /\ UNCHANGED <<gui, config, script_segments, image_counter, image_prompt, task_id,
                   dir_made, written, nreq>>

\* Lines 154-155 after the last iteration: None is returned, so main_pipeline
\* skips the segment (lines 219-223).
PollExhausted ==
    /\ pc = "poll_loop"
    /\ ~AttemptsRemain(attempt)
    /\ image_url' = None
    /\ poll_err' = FALSE
    /\ stat' = [stat EXCEPT ![Cur].poll = "null"]
    /\ log_queue' = log_queue \o <<Msg("ErrMaxPoll"), Msg("SkipPoll")>>
    /\ i' = NextSegment(i)
    /\ pc' = "loop"
    /\ UNCHANGED <<gui, config, script_segments, image_counter, image_prompt, task_id,
                   attempt, response, dir_made, written, nreq>>

\* -------------------------------------------------- download_and_save_image
\* Lines 157-167, and main_pipeline, lines 227-231.
Download(r) ==
    /\ pc = "download"
    /\ nreq' = nreq + 1
    /\ IF IsRequestException(r)
       THEN /\ log_queue' = Append(log_queue, Msg("ErrDownload"))
            /\ stat' = [stat EXCEPT ![Cur].ndl = @ + 1, ![Cur].dl = "failed"]
            /\ image_counter' = NextImageCounter(FALSE)
            /\ i' = NextSegment(i)
            /\ pc' = "loop"
            /\ UNCHANGED written
       ELSE IF r.open = "OSError"
       THEN /\ stat' = [stat EXCEPT ![Cur].ndl = @ + 1, ![Cur].dl = "raise"]
            /\ pc' = "except"
            /\ UNCHANGED <<log_queue, image_counter, i, written>>
       ELSE /\ written' = [k \in DOMAIN written \cup {FileNumber} |->
                              IF k = FileNumber THEN Cur ELSE written[k]]
            /\ log_queue' = Append(log_queue, MsgN("Saved", FileNumber))
            /\ stat' = [stat EXCEPT ![Cur].ndl = @ + 1, ![Cur].dl = "saved"]
            /\ image_counter' = NextImageCounter(TRUE)
            /\ i' = NextSegment(i)
            /\ pc' = "loop"
    /\ UNCHANGED <<gui, config, script_segments, locals, attempt, response, dir_made,
                   poll_err>>

\* ------------------------------------------------- App.run_pipeline_thread
\* AfterExcept for a wrapper whose sentinel is put on the normal path only
AfterExceptThreadEnds == "done"

\* where control goes after the except clause (lines 529-532): the finally clause
AfterExcept == "finally"

\* Lines 529-530: an exception escaped main_pipeline.
WorkerExcept ==
    /\ pc = "except"
    /\ log_queue' = Append(log_queue, Msg("Critical"))
    /\ pc' = AfterExcept
    /\ threads' = IF AfterExcept = "done" THEN threads - 1 ELSE threads
    /\ UNCHANGED <<is_running, log_text, dialog, config, script_segments, i,
                   image_counter, locals, attempt, response, dir_made, written, stat,
                   nreq, poll_err>>

\* FinallyPuts for a wrapper that signals completion twice
FinallyPutsTwice == <<PIPELINE_COMPLETE, PIPELINE_COMPLETE>>

\* what the finally clause puts on the queue (line 532)
FinallyPuts == <<PIPELINE_COMPLETE>>

\* Lines 531-532: the sentinel; the thread ends.
WorkerFinally ==
    /\ pc = "finally"
    /\ log_queue' = log_queue \o FinallyPuts
    /\ pc' = "done"
    /\ threads' = threads - 1
    /\ UNCHANGED <<is_running, log_text, dialog, config, script_segments, i,
                   image_counter, locals, attempt, response, dir_made, written, stat,
                   nreq, poll_err>>

\* the steps of poll_for_image_url
PollStep(responses) ==
    \/ PollEnter
    \/ PollSleep
    \/ \E r \in responses : PollGet(r)
    \/ PollParse
    \/ PollExhausted

\* the steps of the worker thread
Worker ==
    \/ MainBegin
    \/ LoopHead
    \/ \E r \in SynthResponses : SynthRequest(r)
    \/ SynthReturn
    \/ \E r \in SubmitResponses : SubmitRequest(r)
    \/ SubmitReturn
    \/ PollStep(PipePollResponses)
    \/ \E r \in DownloadResponses : Download(r)
    \/ WorkerExcept
    \/ WorkerFinally

\* ------------------------------------- the worker alone, started on a valid config
Scripts(maxlen) == UNION {[1..n -> {"w", " "}] : n \in 0..maxlen}

PipeConfigs ==
    {[freepik_key |-> <<"k">>, deepseek_key |-> <<"k">>, full_script |-> t, num_images |-> n] :
        t \in Scripts(MaxScriptLen), n \in 1..MaxImages}

\* the state start_pipeline leaves when it starts the thread (lines 509-523)
Started(cfg) ==
    /\ is_running = TRUE
    /\ log_text = <<>>
    /\ threads = 1
    /\ pc = "begin"
    /\ config = cfg
    /\ script_segments = <<>>
    /\ i = 0
    /\ image_counter = 0
    /\ image_prompt = None
    /\ task_id = None
    /\ image_url = None
    /\ attempt = 0
    /\ response = NoResponse
    /\ dir_made = FALSE
    /\ written = NoFiles
    /\ stat = <<>>
    /\ nreq = 0
    /\ poll_err = FALSE

InitPipe ==
    /\ log_queue = <<>>
    /\ dialog = "none"
    /\ \E cfg \in PipeConfigs : Started(cfg)

NextPipe == Worker

SpecPipe == InitPipe /\ [][NextPipe]_vars

\* ------------------------------------- segment_script alone, on any text
SegTexts == UNION {[1..n -> {"a", "b", " ", "\n"}] : n \in 0..MaxSegTextLen}

SegConfigs ==
    {[freepik_key |-> <<"k">>, deepseek_key |-> <<"k">>, full_script |-> t, num_images |-> n] :
        t \in SegTexts, n \in 1..MaxSegments}

InitSeg ==
    /\ log_queue = <<>>
    /\ dialog = "none"
    /\ \E cfg \in SegConfigs : Started(cfg)

\* the call of segment_script and the check of its result
NextSeg == MainBegin

SpecSeg == InitSeg /\ [][NextSeg]_vars

\* ------------------------------------- poll_for_image_url alone, on one job
\* The state in which main_pipeline calls poll_for_image_url for the only
\* segment of a one-word script (line 219), before any status response.
InitPoll ==
    /\ is_running = TRUE
    /\ log_text = <<>>
    /\ dialog = "none"
    /\ threads = 1
    /\ pc = "poll_enter"
    /\ config = [freepik_key |-> <<"k">>, deepseek_key |-> <<"k">>,
                 full_script |-> <<"w">>, num_images |-> 1]
    /\ script_segments = << <<"w">> >>
    /\ i = 0
    /\ image_counter = 1
    /\ image_prompt = Some(<<"p">>)
    /\ task_id = Some(TaskText)
    /\ image_url = None
    /\ attempt = 0
    /\ response = NoResponse
    /\ dir_made = TRUE
    /\ written = NoFiles
    /\ stat = <<[Fresh EXCEPT !.nsynth = 1, !.synth = "ok", !.nsubmit = 1, !.submit = "ok"]>>
    /\ nreq = 2
    /\ poll_err = FALSE
    /\ log_queue = <<Msg("Start"), Msg("SaveInfo"), MsgN("Split", 1), MsgN("Processing", 1),
                     Msg("GenPrompt"), Msg("Prompt"), Msg("StartGen"), Msg("TaskStarted")>>

\* the poll run with every shape of status response, then the rest of the run
NextPoll ==
    \/ PollStep(PollResponses)
    \/ \E r \in DownloadResponses : Download(r)
    \/ LoopHead
    \/ WorkerExcept
    \/ WorkerFinally

SpecPoll == InitPoll /\ [][NextPoll]_vars

\* ------------------------------------------------------------------ the App
Digits == <<"0", "1", "2", "3", "4", "5", "6", "7", "8", "9">>

IsDigit(c) == \E k \in 1..10 : Digits[k] = c

DigitValue(c) == (CHOOSE k \in 1..10 : Digits[k] = c) - 1

RECURSIVE Decimal(_, _)
Decimal(t, acc) ==
    IF t = <<>> THEN acc ELSE Decimal(Tail(t), 10 * acc + DigitValue(Head(t)))

AllDigits(t) == t # <<>> /\ \A k \in 1..Len(t) : IsDigit(t[k])

\* int(text): an optional integer, None standing for ValueError
IntOf(text) ==
    LET t == Strip(text)
        signed == t # <<>> /\ Head(t) \in {"-", "+"}
        body == IF signed THEN Tail(t) ELSE t
    IN  IF ~AllDigits(body) THEN None
        ELSE IF signed /\ Head(t) = "-" THEN Some(0 - Decimal(body, 0))
        ELSE Some(Decimal(body, 0))

Keys == {<<>>, <<"k">>}

NumEntries == {<<>>, <<"x">>, <<"0">>, <<"1">>, <<"2">>, <<"-", "1">>}

\* AlreadyRunning for a start button without the guard
AlreadyRunningIgnored == FALSE

\* "if self.is_running" (line 484)
AlreadyRunning == is_running

\* MissingKey for a form that wants only one of the two keys
MissingKeyBoth(fk, dk) == fk = <<>> /\ dk = <<>>

\* "if not config['freepik_key'] or not config['deepseek_key']" (line 498)
MissingKey(fk, dk) == fk = <<>> \/ dk = <<>>

\* lines 502-505: int() raised ValueError, or the number is not positive
BadCount(numtxt) == IntOf(numtxt) = None \/ IntOf(numtxt)[1] <= 0

\* App.start_pipeline, lines 484-486: a request made during a run is answered
\* with a warning before any input is read.
StartWhileRunning ==
    /\ AlreadyRunning
    /\ dialog' = "In Progress"
    /\ UNCHANGED <<is_running, log_text, log_queue, threads, pc, config,
                   script_segments, i, image_counter, locals, attempt, response,
                   dir_made, written, stat, nreq, poll_err>>

\* App.start_pipeline, lines 488-523; typed is the content of the script box,
\* to which Text.get("1.0", END) adds the final newline.
StartPipeline(fk, dk, numtxt, typed) ==
    /\ ~AlreadyRunning
    /\ IF MissingKey(fk, dk)
       THEN /\ dialog' = "API keys are required."
            /\ UNCHANGED <<is_running, log_text, log_queue, threads, pc, config,
                           script_segments, i, image_counter, locals, attempt, response,
                           dir_made, written, stat, nreq, poll_err>>
       ELSE IF BadCount(numtxt)
       THEN /\ dialog' = "Number of images must be a positive integer."
            /\ UNCHANGED <<is_running, log_text, log_queue, threads, pc, config,
                           script_segments, i, image_counter, locals, attempt, response,
                           dir_made, written, stat, nreq, poll_err>>
       ELSE /\ dialog' = "none"
            /\ is_running' = TRUE
            /\ log_text' = <<>>
            /\ threads' = threads + 1
            /\ pc' = "begin"
            /\ config' = [freepik_key |-> fk, deepseek_key |-> dk,
                          full_script |-> typed \o <<"\n">>,
                          num_images |-> IntOf(numtxt)[1]]
            /\ script_segments' = <<>>
            /\ i' = 0
            /\ image_counter' = 0
            /\ image_prompt' = None
            /\ task_id' = None
            /\ image_url' = None
            /\ attempt' = 0
            /\ response' = NoResponse
            /\ dir_made' = FALSE
            /\ written' = NoFiles
            /\ stat' = <<>>
            /\ nreq' = 0
            /\ poll_err' = FALSE
            /\ UNCHANGED log_queue

\* the lines the observer appends to the log display when it takes q off the
\* queue: all but the sentinel
Shown(q) == SelectSeq(q, LAMBDA m : m # PIPELINE_COMPLETE)

HasSentinel(q) == \E k \in 1..Len(q) : q[k] = PIPELINE_COMPLETE

\* GetNowait for a queue that hands out its newest item
GetNowaitNewest(q) == q[Len(q)]

\* self.log_queue.get_nowait() (line 538) on a non-empty queue.Queue: the oldest item
GetNowait(q) == Head(q)

\* App.process_log_queue, lines 534-552, one iteration of the while loop at a
\* time, since the worker thread may put lines between two get_nowait calls.
\* With the queue empty get_nowait raises Empty and the callback re-arms its
\* timer, which changes nothing.
ProcessLogQueue ==
    /\ log_queue # <<>>
    /\ LET message == GetNowait(log_queue)
       IN  IF message = PIPELINE_COMPLETE
           THEN /\ is_running' = FALSE
                /\ UNCHANGED log_text
           ELSE /\ log_text' = Append(log_text, message)
                /\ UNCHANGED is_running
    /\ log_queue' = Tail(log_queue)
    /\ UNCHANGED <<threads, dialog, pc, config, script_segments, i, image_counter,
                   locals, attempt, response, dir_made, written, stat, nreq, poll_err>>

\* the state App.__init__ leaves (lines 422-426)
InitApp ==
    /\ is_running = FALSE
    /\ log_text = <<>>
    /\ log_queue = <<>>
    /\ dialog = "none"
    /\ threads = 0
    /\ pc = "idle"
    /\ config = NoConfig
    /\ script_segments = <<>>
    /\ i = 0
    /\ image_counter = 0
    /\ image_prompt = None
    /\ task_id = None
    /\ image_url = None
    /\ attempt = 0
    /\ response = NoResponse
    /\ dir_made = FALSE
    /\ written = NoFiles
    /\ stat = <<>>
    /\ nreq = 0
    /\ poll_err = FALSE

\* a press of the start button, whatever the form holds
StartRequest ==
    \/ StartWhileRunning
    \/ \E fk \in Keys, dk \in Keys, numtxt \in NumEntries,
          typed \in Scripts(MaxAppScriptLen) :
            StartPipeline(fk, dk, numtxt, typed)

NextApp ==
    \/ StartRequest
    \/ Worker
    \/ ProcessLogQueue

SpecApp == InitApp /\ [][NextApp]_vars

\* The worker thread is scheduled until it ends (every blocking call has a
\* timeout, the poll loop is bounded), and the observer's callback re-arms
\* itself in its finally clause (line 552).
FairSpecApp == SpecApp /\ WF_vars(Worker) /\ WF_vars(ProcessLogQueue)

\* ================================================================== claims
SegmentsOf == DOMAIN stat

\* an item that is a string starting with "http", stated character by character
Qualifies(item) ==
    /\ item.isStr
    /\ Len(item.text) >= 4
    /\ item.text[1] = "h" /\ item.text[2] = "t" /\ item.text[3] = "t" /\ item.text[4] = "p"

\* the response under examination carries a non-empty generated list with such a string
HasQualifying(r) ==
    /\ r.kind = "ok" /\ r.data = "dict" /\ r.gen = "list"
    /\ \E k \in 1..Len(r.items) : Qualifies(r.items[k])

FirstQualifying(r) ==
    r.items[CHOOSE k \in 1..Len(r.items) :
                Qualifies(r.items[k]) /\ \A j \in 1..(k - 1) : ~Qualifies(r.items[j])].text

\* C1: the attempt whose response carries a generated list with an http string
\* returns that list's first such string (and the poller returns a URL on no other
\* response); the request that got it was the last one of the attempts made so
\* far, and after the return that job sees no further sleep or status request.
C1_FirstUrlReturned ==
    /\ [][(pc = "poll_parse" /\ HasQualifying(response))
            => /\ image_url' = Some(FirstQualifying(response))
               /\ stat'[Cur].poll = "url"
               /\ stat'[Cur].reqs = attempt + 1
               /\ pc' = "download"]_vars
    /\ [][\A s \in SegmentsOf :
            (stat[s].poll # "url" /\ s \in DOMAIN stat' /\ stat'[s].poll = "url")
               => (pc = "poll_parse" /\ HasQualifying(response))]_vars
    /\ [][\A s \in SegmentsOf :
            stat[s].poll = "url"
               => /\ s \in DOMAIN stat'
                  /\ stat'[s].reqs = stat[s].reqs
                  /\ stat'[s].sleeps = stat[s].sleeps]_vars

\* the run is over, the poller returned the second http string offered, which was
\* not the first item of its list, on a third or later attempt
C1_Witness ==
    /\ pc = "done"
    /\ stat[1].poll = "url"
    /\ image_url = Some(UrlB)
    /\ stat[1].reqs >= 3

\* C2: a poll run that returns null has made exactly MAX_ATTEMPTS status requests
\* and MAX_ATTEMPTS sleeps; sleeps and requests alternate, the sleep first (the
\* counts are equal except between a sleep and its request), and no run makes
\* more than MAX_ATTEMPTS requests.
C2_NullAfterMaxAttempts ==
    \A s \in SegmentsOf :
        /\ stat[s].poll = "null"
              => (stat[s].reqs = MAX_ATTEMPTS /\ stat[s].sleeps = MAX_ATTEMPTS)
        /\ stat[s].sleeps = stat[s].reqs + (IF pc = "poll_get" /\ s = Cur THEN 1 ELSE 0)
        /\ stat[s].reqs <= MAX_ATTEMPTS
        /\ (pc = "poll_loop" /\ s = Cur) => stat[s].reqs = attempt

\* the run is over and its poller gave up after MAX_ATTEMPTS requests
C2_Witness ==
    /\ pc = "done"
    /\ stat[1].poll = "null"
    /\ stat[1].reqs = MAX_ATTEMPTS
    /\ \E k \in 1..Len(log_queue) : log_queue[k].kind = "ErrMaxPoll"

\* C3: a transport or HTTP error on an attempt returns neither a URL nor null: the
\* loop goes on with one attempt consumed, the next attempt is made while the
\* budget lasts, a qualifying response on a later attempt is returned, and the
\* requests of a run never exceed MAX_ATTEMPTS.
C3_ErrorConsumesOneAttempt ==
    /\ [][(pc = "poll_parse" /\ response.kind \in {"transport", "http"})
            => /\ pc' = "poll_loop"
               /\ attempt' = attempt + 1
               /\ stat'[Cur].poll = "-"
               /\ poll_err']_vars
    /\ [][(pc = "poll_parse" /\ poll_err /\ HasQualifying(response))
            => (stat'[Cur].poll = "url" /\ image_url' # None)]_vars
    /\ []((pc = "poll_loop" /\ attempt < MAX_ATTEMPTS) => ENABLED PollSleep)
    /\ [](\A s \in SegmentsOf : stat[s].reqs <= MAX_ATTEMPTS)

\* after an attempt that failed with a request error, the last attempt of the
\* budget was made and its response carries a URL
C3_Witness ==
    /\ pc = "poll_parse"
    /\ poll_err
    /\ attempt = MAX_ATTEMPTS - 1
    /\ HasQualifying(response)

\* ------------------------------------------------------ the log of one run
\* Every line the run has produced: the lines displayed, then the lines queued.
\* Where no observer runs (the worker alone) this is the queue less the sentinel.
Produced == log_text \o Shown(log_queue)

LinesOfKind(log, kinds) == {k \in 1..Len(log) : log[k].kind \in kinds}

SkipKinds == {"SkipPrompt", "SkipStart", "SkipPoll"}

\* the lines that close the part of the log that belongs to a segment
ClosingKinds == {"Processing", "Complete", "Critical"}

\* the positions of the lines logged while segment s was processed: those after
\* its "Processing Segment s" line and before the next closing line
SegmentLines(log, s) ==
    LET start == CHOOSE k \in 1..Len(log) : log[k] = MsgN("Processing", s)
        later == {k \in (start + 1)..Len(log) : log[k].kind \in ClosingKinds}
        stop == IF later = {} THEN Len(log) + 1
                ELSE CHOOSE k \in later : \A j \in later : k <= j
    IN  (start + 1)..(stop - 1)

SkipLines(log, s) == Cardinality({k \in SegmentLines(log, s) : log[k].kind \in SkipKinds})

NullAt(s) == stat[s].synth = "null" \/ stat[s].submit = "null" \/ stat[s].poll = "null"

\* the worker has left main_pipeline
RunOver == pc \in {"except", "finally", "done"}

\* C4: a segment for which the synthesizer, the submitter or the poller returned
\* null has none of the later stages invoked, has exactly one "Skipping segment"
\* line in its part of the log, and is followed by the next segment: the run
\* does not leave main_pipeline before synthesis was attempted on segment s+1.
C4_NullSkipsRestOfSegment ==
    \A s \in SegmentsOf :
        /\ stat[s].synth = "null"
              => (stat[s].nsubmit = 0 /\ stat[s].npoll = 0 /\ stat[s].reqs = 0
                  /\ stat[s].ndl = 0)
        /\ stat[s].submit = "null"
              => (stat[s].npoll = 0 /\ stat[s].reqs = 0 /\ stat[s].ndl = 0)
        /\ stat[s].poll = "null" => stat[s].ndl = 0
        /\ NullAt(s)
              => /\ SkipLines(log_queue, s) = 1
                 /\ i >= s
                 /\ (RunOver /\ s < Len(script_segments)) => stat[s + 1].nsynth = 1

\* submission returned null for segment 1 and segment 2 was then processed to its download
C4_Witness ==
    /\ Len(script_segments) = 2
    /\ stat[1].submit = "null"
    /\ stat[2].dl = "saved"
    /\ pc = "done"

\* the numbers printed by the summary lines of a log
SummaryNumbers(log) == {log[k].n : k \in LinesOfKind(log, {"Summary"})}

\* C5 as claimed: in a run with a non-empty segmentation, whatever failed, prompt
\* synthesis was attempted once for every segment and the summary was emitted
\* by the time the worker thread ends.
C5_NoFailureAbortsRun ==
    (pc = "done" /\ script_segments # <<>>)
        => /\ \A s \in SegmentsOf : stat[s].nsynth = 1
           /\ SummaryNumbers(log_queue) # {}

SavedSegments == {s \in SegmentsOf : stat[s].dl = "saved"}

\* C6 as claimed: only a segment that produced an image consumes a file number and
\* advances the counter, so between segments the counter is one more than the
\* number of images produced and at the end of the run the files written are
\* exactly 1..k, k the number of segments that produced an image.
C6_DenseNumbering ==
    /\ pc = "loop" => image_counter - 1 = Cardinality(SavedSegments)
    /\ pc = "done" => DOMAIN written = 1..Cardinality(SavedSegments)

DownloadReturned == {s \in SegmentsOf : stat[s].dl \in {"saved", "failed"}}

UrlSegments == {s \in SegmentsOf : stat[s].poll = "url"}

AllStagesSucceeded ==
    \A s \in SegmentsOf :
        /\ stat[s].synth = "ok" /\ stat[s].submit = "ok"
        /\ stat[s].poll = "url" /\ stat[s].dl = "saved"

\* C8: a finished run over N segments in which every stage call succeeded has
\* written exactly the files 1..N, file k holding the image of segment k, and
\* its only summary line reports N.
C8_AllSucceedWritesAll ==
    (pc = "done" /\ script_segments # <<>> /\ AllStagesSucceeded)
        => /\ written = [k \in 1..Len(script_segments) |-> k]
           /\ Cardinality(LinesOfKind(log_queue, {"Summary"})) = 1
           /\ SummaryNumbers(log_queue) = {Len(script_segments)}

\* a finished run over two segments, every stage call of which succeeded
C8_Witness ==
    /\ pc = "done"
    /\ Len(script_segments) = 2
    /\ AllStagesSucceeded

\* only whitespace, or nothing at all
Blank(text) == \A k \in 1..Len(text) : text[k] \in Whitespace

\* C9: once main_pipeline has looked at a blank script it has left the pipeline
\* without entering the segment loop: no request was issued, no file written,
\* no summary logged, and the log holds exactly one configuration-error line.
C9_BlankScriptAborts ==
    (Blank(config.full_script) /\ pc \notin {"idle", "begin"})
        => /\ pc \in {"finally", "done"}
           /\ script_segments = <<>>
           /\ nreq = 0
           /\ written = NoFiles
           /\ Cardinality(LinesOfKind(log_queue, {"ErrEmpty"})) = 1
           /\ LinesOfKind(log_queue, {"Processing", "Complete", "Summary", "Critical"}) = {}

\* a finished run whose script was two blanks
C9_Witness ==
    /\ pc = "done"
    /\ config.full_script = <<" ", " ">>
    /\ LinesOfKind(log_queue, {"ErrEmpty"}) # {}

\* an exception escaped from a stage of the run
Crashed ==
    \E s \in SegmentsOf :
        "raise" \in {stat[s].synth, stat[s].submit, stat[s].poll, stat[s].dl}

\* C10: a started run is always completed for the observer: the running flag,
\* once set, is eventually cleared; while it is set the worker is still at work or
\* its sentinel is in the queue; a run that an exception ended has the
\* critical-error line as its last log line, ahead of the sentinel; the step
\* that takes the sentinel off the queue clears the flag; and with the flag clear a start
\* request with valid inputs starts a worker.
C10_RunAlwaysCompletes ==
    /\ is_running ~> ~is_running
    /\ [](is_running => (pc \in {"idle", "done"} => HasSentinel(log_queue)))
    /\ []((pc = "done" /\ Crashed)
            => LET log == Produced
               IN  log # <<>> /\ log[Len(log)].kind = "Critical")
    /\ [][(log_queue # <<>> /\ Head(log_queue) = PIPELINE_COMPLETE
              /\ log_queue' = Tail(log_queue)) => ~is_running']_vars
    /\ [](~is_running
            => ENABLED (StartPipeline(<<"k">>, <<"k">>, <<"1">>, <<"w">>) /\ pc' = "begin"))

\* a run that an exception in the download ended has been completed: the
\* observer has shown the critical-error line and cleared the flag
C10_Witness ==
    /\ ~is_running
    /\ pc = "done"
    /\ stat # <<>>
    /\ stat[1].dl = "raise"
    /\ log_text # <<>>
    /\ log_text[Len(log_text)].kind = "Critical"

\* ------------------------------------------------- worker, queue and observer
IsPrefix(a, b) == Len(a) <= Len(b) /\ SubSeq(b, 1, Len(a)) = a

\* the worker is inside run_pipeline_thread
WorkerLive == pc \notin {"idle", "done"}

\* C11: the log display receives the worker's lines in the order of production.
\* Every step that changes the queue either puts lines at its tail and leaves
\* the display alone, or takes its oldest item, which, unless it is the
\* sentinel, becomes the last line of the display; the display changes in no
\* other way, except that a start request accepted on an empty queue clears
\* it; hence the display followed by the queued lines is at all times what the
\* run has produced, and nothing is lost, duplicated or reordered.
C11_FifoDelivery ==
    /\ [][log_queue' # log_queue
            => \/ /\ IsPrefix(log_queue, log_queue')
                  /\ log_text' = log_text
               \/ /\ log_queue # <<>>
                  /\ log_queue' = Tail(log_queue)
                  /\ log_text' = IF Head(log_queue) = PIPELINE_COMPLETE THEN log_text
                                 ELSE Append(log_text, Head(log_queue))]_vars
    /\ [][log_text' # log_text
            => \/ /\ log_queue # <<>>
                  /\ log_queue' = Tail(log_queue)
                  /\ log_text' = Append(log_text, Head(log_queue))
               \/ /\ ~is_running /\ is_running'
                  /\ log_queue = <<>> /\ log_queue' = <<>>
                  /\ log_text' = <<>>]_vars
    /\ [][(WorkerLive /\ WorkerLive') => IsPrefix(Produced, Produced')]_vars
    /\ [](log_text # <<>> => log_text[1] = Msg("Start"))

\* the observer has displayed lines of a run whose worker has since queued two
\* more and is still polling
C11_Witness ==
    /\ pc = "poll_get"
    /\ Len(log_text) >= 2
    /\ Len(log_queue) >= 2
    /\ log_queue[1].kind = "StartGen"

\* C12: at most one run is active.  There is never more than one worker
\* thread, and a worker is inside run_pipeline_thread exactly when one thread
\* is alive, which happens only with the flag set; a start request made with
\* the flag set changes nothing but the dialog it shows; and the flag is
\* cleared only by the step that takes the sentinel off the queue, after the
\* worker of the run has ended.
C12_SingleRun ==
    /\ [](threads \in {0, 1})
    /\ [](WorkerLive <=> threads = 1)
    /\ [](WorkerLive => is_running)
    /\ [][(is_running /\ StartRequest)
            => UNCHANGED <<is_running, log_text, log_queue, threads, pc, config,
                           script_segments, i, image_counter, locals, attempt, response,
                           dir_made, written, stat, nreq, poll_err>>]_vars
    /\ [][(is_running /\ ~is_running')
            => /\ log_queue # <<>>
               /\ Head(log_queue) = PIPELINE_COMPLETE
               /\ log_queue' = Tail(log_queue)
               /\ pc = "done" /\ threads = 0]_vars

\* a start request was answered with the warning while the worker of the
\* current run was between two segments
C12_Witness ==
    /\ is_running
    /\ dialog = "In Progress"
    /\ threads = 1
    /\ pc = "loop"
    /\ i = 1

\* the entry is the decimal numeral of a positive integer
PositiveNumeral(t) ==
    /\ t # <<>>
    /\ \A k \in 1..Len(t) : t[k] \in {"0", "1", "2", "3", "4", "5", "6", "7", "8", "9"}
    /\ \E k \in 1..Len(t) : t[k] # "0"

StartDialogs == {"API keys are required.", "Number of images must be a positive integer."}

\* C13: a start request with an empty key or with a count entry that is not a
\* positive integer shows an error dialog and changes nothing else: no thread
\* is started, the flag stays false, no directory is made, no request issued.
\* Hence a worker only ever runs, makes the directory or issues requests on a
\* configuration with both keys and a count of at least 1.
C13_InvalidStartRejected ==
    /\ [][\A fk \in Keys, dk \in Keys, numtxt \in NumEntries,
             typed \in Scripts(MaxAppScriptLen) :
               (/\ StartPipeline(fk, dk, numtxt, typed)
                /\ (fk = <<>> \/ dk = <<>> \/ ~PositiveNumeral(numtxt)))
                  => /\ ~is_running /\ ~is_running'
                     /\ dialog' \in StartDialogs
                     /\ UNCHANGED <<log_text, log_queue, threads, pc, config,
                                    script_segments, i, image_counter, locals, attempt,
                                    response, dir_made, written, stat, nreq, poll_err>>]_vars
    /\ []((threads > 0 \/ dir_made \/ nreq > 0 \/ is_running)
            => /\ config.freepik_key # <<>>
               /\ config.deepseek_key # <<>>
               /\ config.num_images >= 1)

\* the first start request of the session was rejected for its count: nothing
\* has run
C13_Witness ==
    /\ dialog = "Number of images must be a positive integer."
    /\ ~is_running
    /\ pc = "idle"
    /\ threads = 0
    /\ ~dir_made
    /\ nreq = 0

\* ----------------------------------------------------------- segment_script
\* position k of text starts a word: a non-blank character at the start of the
\* text or after a blank one
WordStart(text, k) ==
    /\ text[k] \notin {" ", "\n"}
    /\ (k = 1 \/ text[k - 1] \in {" ", "\n"})

WordCount(text) == Cardinality({k \in 1..Len(text) : WordStart(text, k)})

\* the k-th word of text, read off the text itself
WordAt(text, k) ==
    LET starts == {p \in 1..Len(text) : WordStart(text, p)}
        from == CHOOSE p \in starts : Cardinality({q \in starts : q < p}) = k - 1
        blanks == {q \in from..Len(text) : text[q] \in {" ", "\n"}}
        to == IF blanks = {} THEN Len(text)
              ELSE (CHOOSE q \in blanks : \A r \in blanks : q <= r) - 1
    IN  SubSeq(text, from, to)

WordsOf(text) == [k \in 1..WordCount(text) |-> WordAt(text, k)]

RECURSIVE Flatten(_)
Flatten(seqs) == IF seqs = <<>> THEN <<>> ELSE Head(seqs) \o Flatten(Tail(seqs))

\* the least integer not below a / b, for b >= 1
Ceiling(a, b) == CHOOSE q \in 0..a : q * b >= a /\ (q = 0 \/ (q - 1) * b < a)

\* C14: for a text of W >= 1 words and a requested count n >= 1, segment_script
\* returns Ceiling(W, Ceiling(W, n)) segments, at most n, each of at least one
\* and at most Ceiling(W, n) words separated by single blanks, and the words of
\* the segments, in order, are the words of the text.
C14_SegmentArithmetic ==
    (pc # "begin" /\ WordCount(config.full_script) >= 1)
        => LET W == WordCount(config.full_script)
               n == config.num_images
               per == Ceiling(W, n)
           IN  /\ Len(script_segments) = Ceiling(W, per)
               /\ Len(script_segments) <= n
               /\ \A s \in 1..Len(script_segments) :
                     /\ WordCount(script_segments[s]) >= 1
                     /\ WordCount(script_segments[s]) <= per
                     /\ Len(script_segments[s])
                           = Len(Flatten(WordsOf(script_segments[s])))
                               + WordCount(script_segments[s]) - 1
               /\ Flatten([s \in 1..Len(script_segments) |-> WordsOf(script_segments[s])])
                     = WordsOf(config.full_script)

\* four words were asked to be cut in three: two segments of two words came
\* back, the third slice being empty
C14_Witness ==
    /\ pc = "loop"
    /\ config.full_script = <<"a", " ", "b", "\n", "b", " ", "a">>
    /\ config.num_images = 3
    /\ script_segments = << <<"a", " ", "b">>, <<"b", " ", "a">> >>

\* the text is empty or holds blanks and newlines only
OnlyBlanks(text) == \A k \in 1..Len(text) : text[k] = " " \/ text[k] = "\n"

\* C15: on an empty or whitespace-only text segment_script returns the empty
\* sequence, whatever count n >= 1 was requested.
C15_BlankTextNoSegments ==
    (pc # "begin" /\ OnlyBlanks(config.full_script))
        => /\ config.num_images >= 1
           /\ script_segments = <<>>

\* three segments were requested of a text of a blank, a newline and a blank
C15_Witness ==
    /\ pc # "begin"
    /\ config.full_script = <<" ", "\n", " ">>
    /\ config.num_images = 3
    /\ script_segments = <<>>

\* ------------------------------------------------------- the stages' results
\* the poll run of segment s is between its call and its return
PollInProgress(s) == s = Cur /\ pc \in {"poll_loop", "poll_get", "poll_parse"}

\* C16 as claimed: whatever the status responses, a poll run makes at most
\* MAX_ATTEMPTS requests, each after a sleep of its own, and once it is no
\* longer in progress it has returned a URL or null.
C16_PollTwoOutcomes ==
    \A s \in SegmentsOf :
        /\ stat[s].reqs <= MAX_ATTEMPTS
        /\ stat[s].sleeps - stat[s].reqs \in {0, 1}
        /\ (stat[s].npoll = 1 /\ ~PollInProgress(s)) => stat[s].poll \in {"url", "null"}

\* segment s is done with: its image was downloaded, or the download failed,
\* or one of its stages returned a falsy result and it was skipped
SegmentFinished(s) ==
    \/ stat[s].dl \in {"saved", "failed"}
    \/ stat[s].synth \in {"null", "empty"}
    \/ stat[s].submit = "null"
    \/ stat[s].poll = "null"

ReturnedNonNull(result) == result \notin {"-", "null", "raise"}

\* C17: the stages of a run are strictly sequential.  Within a segment a stage
\* has been called only after the stage before it was called once and returned
\* a non-null result (the download only after the poller returned a URL); a
\* segment has a stage called only after the segment before it was finished;
\* and no segment beyond the one the loop is at has had any stage called.
C17_StagesSequential ==
    \A s \in SegmentsOf :
        /\ stat[s].nsubmit > 0
              => (stat[s].nsynth = 1 /\ ReturnedNonNull(stat[s].synth))
        /\ stat[s].npoll > 0
              => (stat[s].nsubmit = 1 /\ ReturnedNonNull(stat[s].submit))
        /\ stat[s].ndl > 0
              => (stat[s].npoll = 1 /\ stat[s].poll = "url")
        /\ (s > 1 /\ stat[s].nsynth > 0) => SegmentFinished(s - 1)
        /\ s > Cur => stat[s] = Fresh

\* the second segment is being polled after the image of the first was saved
C17_Witness ==
    /\ Len(script_segments) = 2
    /\ stat[1].dl = "saved"
    /\ pc = "poll_get"
    /\ Cur = 2
    /\ stat[2].npoll = 1

RECURSIVE SumOver(_, _)
SumOver(f, n) == IF n = 0 THEN 0 ELSE f[n] + SumOver(f, n - 1)

\* the HTTP requests made for segment s
RequestsFor(s) == stat[s].nsynth + stat[s].nsubmit + stat[s].reqs + stat[s].ndl

\* C18: no stage is retried.  Every segment has had at most one synthesis
\* request, one submission request, one poll run of at most MAX_ATTEMPTS status
\* requests and one download request, and the run has issued no request
\* besides these.
C18_NoRetries ==
    /\ \A s \in SegmentsOf :
          /\ stat[s].nsynth <= 1
          /\ stat[s].nsubmit <= 1
          /\ stat[s].npoll <= 1
          /\ stat[s].reqs <= MAX_ATTEMPTS
          /\ stat[s].npoll = 0 => stat[s].reqs = 0
          /\ stat[s].ndl <= 1
    /\ nreq = SumOver([s \in SegmentsOf |-> RequestsFor(s)], Len(stat))

\* a finished run over two segments: synthesis failed for the first, the
\* download for the second, and each was tried once
C18_Witness ==
    /\ pc = "done"
    /\ Len(script_segments) = 2
    /\ stat[1].synth = "null" /\ stat[1].nsynth = 1
    /\ stat[2].dl = "failed" /\ stat[2].ndl = 1
    /\ nreq >= 4

\* the call of segment s to the named stage has returned or raised
SubmitOver(s) == stat[s].nsubmit = 1 /\ ~(s = Cur /\ pc = "submit_ret")

SynthOver(s) == stat[s].nsynth = 1 /\ ~(s = Cur /\ pc = "synth_ret")

LoggedFor(s, kinds) == \E k \in SegmentLines(log_queue, s) : log_queue[k].kind \in kinds

\* C19 as claimed: every call of start_image_generation ends by returning, the
\* identifier or null, and not by raising; a null return comes with a logged
\* error; and the identifier returned is the non-empty one of the response.
C19_SubmitNullOnFailure ==
    \A s \in SegmentsOf :
        SubmitOver(s)
            => /\ stat[s].submit \in {"ok", "null"}
               /\ stat[s].submit = "null" => LoggedFor(s, {"ErrFreepik", "ErrNoTask"})
               /\ stat[s].submit = "ok"
                     => /\ LoggedFor(s, {"TaskStarted"})
                        /\ ~LoggedFor(s, {"ErrFreepik", "ErrNoTask"})
                        /\ s = Cur => task_id = Some(TaskText)

\* the text carries no blank or newline at either end
Trimmed(t) ==
    t = <<>> \/ (t[1] \notin {" ", "\n"} /\ t[Len(t)] \notin {" ", "\n"})

\* C20 as claimed: every call of generate_prompt_from_chunk ends by returning,
\* a text or null, and not by raising; a null return comes with a logged
\* diagnostic; and a text returned is trimmed.
C20_SynthNullOnFailure ==
    \A s \in SegmentsOf :
        SynthOver(s)
            => /\ stat[s].synth \in {"ok", "empty", "null"}
               /\ stat[s].synth = "null"
                     => LoggedFor(s, {"ErrDeepSeek", "ErrDeepSeekParse"})
               /\ (stat[s].synth \in {"ok", "empty"} /\ s = Cur)
                     => (image_prompt # None /\ Trimmed(image_prompt[1]))

\* ------------------------------------------------------------ the sentinel
SentinelCount(q) == Cardinality({k \in 1..Len(q) : q[k] = PIPELINE_COMPLETE})

\* C21: a run puts the sentinel on the queue exactly once, as its last item.
\* The queue never holds more than one sentinel and holds it in last place;
\* the worker thread ends by the step that puts it and by no other, and puts
\* nothing afterwards: from the end of the thread until the flag is cleared
\* the queue ends with the sentinel; the step that clears the flag takes the
\* sentinel from a queue that holds nothing else; and with the flag clear the
\* queue is empty, so a new run starts on an empty queue.
C21_SentinelOnceAndLast ==
    /\ [](SentinelCount(log_queue) <= 1)
    /\ [](HasSentinel(log_queue)
            => (log_queue[Len(log_queue)] = PIPELINE_COMPLETE /\ pc = "done"))
    /\ []((is_running /\ pc = "done") => SentinelCount(log_queue) = 1)
    /\ [][(pc # "done" /\ pc' = "done")
            => (pc = "finally" /\ log_queue' = Append(log_queue, PIPELINE_COMPLETE))]_vars
    /\ [][SentinelCount(log_queue') > SentinelCount(log_queue)
            => (pc = "finally" /\ pc' = "done")]_vars
    /\ [][(is_running /\ ~is_running')
            => (log_queue = <<PIPELINE_COMPLETE>> /\ log_queue' = <<>>)]_vars
    /\ [](~is_running => log_queue = <<>>)
    /\ [][(~is_running /\ is_running') => (log_queue' = <<>> /\ log_text' = <<>>)]_vars

\* a run that ended with its summary has been delivered in full: the summary
\* is the last line displayed, the sentinel was taken, the flag is clear
C21_Witness ==
    /\ ~is_running
    /\ pc = "done"
    /\ log_queue = <<>>
    /\ log_text # <<>>
    /\ log_text[Len(log_text)].kind = "Summary"

\* ------------------------------------------------------ the empty prompt
\* the response examined is a completion whose text is empty or all blank
BlankCompletion(r) ==
    /\ r.kind = "ok"
    /\ r.choices = "list" /\ r.first = "dict" /\ r.message = "dict" /\ r.content = "str"
    /\ OnlyBlanks(r.text)

\* C22: a completion with an empty or all-blank text has the segment skipped
\* as a null prompt has: the step that receives it logs the prompt-generation
\* skip line as its last line and goes on with the next segment, the counter
\* and the files untouched; and a segment whose prompt came back empty has no
\* job submitted, no poll, no download, exactly one skip line, and no file.
C22_EmptyPromptSkipped ==
    /\ [][(pc = "synth_ret" /\ BlankCompletion(response))
            => /\ pc' = "loop"
               /\ i' = i + 1
               /\ image_counter' = image_counter
               /\ written' = written
               /\ nreq' = nreq
               /\ stat'[Cur].synth = "empty"
               /\ Len(log_queue') = Len(log_queue) + 1
               /\ log_queue'[Len(log_queue')] = Msg("SkipPrompt")]_vars
    /\ [](\A s \in SegmentsOf :
            stat[s].synth = "empty"
               => /\ stat[s].nsubmit = 0 /\ stat[s].npoll = 0
                  /\ stat[s].reqs = 0 /\ stat[s].ndl = 0
                  /\ SkipLines(log_queue, s) = 1
                  /\ \A k \in DOMAIN written : written[k] # s)
    /\ [][\A s \in SegmentsOf :
            (stat[s].synth = "-" /\ s \in DOMAIN stat' /\ stat'[s].synth = "empty")
               => (pc = "synth_ret" /\ BlankCompletion(response))]_vars

\* the completion for the first of two segments was blank; the image of the
\* second was saved under the number 1
C22_Witness ==
    /\ pc = "done"
    /\ Len(script_segments) = 2
    /\ stat[1].synth = "empty"
    /\ stat[2].dl = "saved"
    /\ written = [k \in {1} |-> 2]

====
